---- MODULE Spec2Model ----
(***************************************************************************)
(* Model of the YouTube downloader wrapper (src/api.py): the progress     *)
(* projector (_progress_hook and the DownloadProgress record), the        *)
(* metadata operations (get_video_info, get_playlist_info) and the format *)
(* catalogue used by download_video; and of the Streamlit front-end       *)
(* (src/streamlit_app.py), whose script runs top to bottom once for every *)
(* interaction of the user.                                                *)
(*                                                                         *)
(* Python values are tagged records: a dictionary key that is missing is  *)
(* Absent, None is None, an int is PyInt(n), a str is PyStr(s), s the    *)
(* sequence of its pieces (single characters where the code parses the    *)
(* text, whole words where it only copies it), a list is PyList(s).  A    *)
(* float is an exact fraction in lowest terms (Rat).                       *)
(***************************************************************************)
EXTENDS Integers, Sequences, FiniteSets, TLC

VARIABLES
    progress_callback,  \* YouTubeDownloader.progress_callback
    event,              \* the engine event handed to _progress_hook last
    hook,               \* how that call of _progress_hook ended
    download_progress,  \* the state the observer received last
    nEvents,            \* engine events delivered to _progress_hook so far
    observed,           \* the observer's invocations: the index of each event
    op,                 \* the wrapper method called last
    args,               \* its arguments
    engine,             \* the engine calls it made, each with its result
    outcome,            \* how it ended: the value returned or the error raised
    ydl_opts,           \* the options download_video built for the engine
    pc,                 \* where the front-end's script run stands
    clicked,            \* the button whose press started the script run
    url_input,          \* the text of the URL field
    has_downloader,     \* 'downloader' in st.session_state
    is_downloading,     \* st.session_state.is_downloading
    video_info,         \* st.session_state.video_info
    download_disabled   \* the Download button as the page shows it

vars == <<progress_callback, event, hook, download_progress, nEvents, observed,
          op, args, engine, outcome, ydl_opts,
          pc, clicked, url_input, has_downloader, is_downloading, video_info,
          download_disabled>>

hookVars == <<progress_callback, event, hook, download_progress, nEvents, observed>>
apiVars == <<op, args, engine, outcome, ydl_opts>>
appVars == <<pc, clicked, url_input, has_downloader, is_downloading, video_info,
             download_disabled>>

----------------------------------------------------------------------------
(* Bounds *)

MaxBytes == 2
MaxEvents == 2
MaxEntries == 2

----------------------------------------------------------------------------
(* Python values *)

Absent == [kind |-> "absent"]
None == [kind |-> "none"]
PyInt(n) == [kind |-> "int", ival |-> n]
PyStr(s) == [kind |-> "str", sval |-> s]

IsStr(v) == v.kind = "str"
IsInt(v) == v.kind = "int"

PyList(s) == [kind |-> "list", items |-> s]

\* the keys of the engine's info dictionaries that the wrapper reads
InfoKeys ==
    {"entries", "id", "title", "description", "duration", "uploader",
     "upload_date", "view_count", "thumbnail", "formats"}

\* Python truth value: None, 0, '', [] and {} are false.
Truthy(v) ==
    CASE v.kind = "none" -> FALSE
      [] v.kind = "int" -> v.ival # 0
      [] v.kind = "str" -> v.sval # <<>>
      [] v.kind = "list" -> v.items # <<>>
      [] v.kind = "dict" -> \E k \in InfoKeys : v[k] # Absent
      [] OTHER -> FALSE

\* d.get(key, default) for a value that is Absent when the key is missing.
Get(v, default) == IF v = Absent THEN default ELSE v

----------------------------------------------------------------------------
(* Floats as exact fractions *)

Abs(n) == IF n < 0 THEN 0 - n ELSE n

RECURSIVE GCD(_, _)
GCD(a, b) == IF b = 0 THEN a ELSE GCD(b, a % b)

Rat(n, d) ==
    LET g == GCD(Abs(n), Abs(d))
        s == IF d < 0 THEN 0 - 1 ELSE 1
    IN  [num |-> (s * n) \div g, den |-> (s * d) \div g]

Zero == Rat(0, 1)
Hundred == Rat(100, 1)

\* a <= b for fractions with positive denominators
RatLeq(a, b) == a.num * b.den <= b.num * a.den

\* faulty variant: the quotient taken the wrong way round
PercentOf_Inverted(x, y) == Rat(y * 100, x)

\* (x / y) * 100 on byte counts
PercentOf(x, y) == Rat(x * 100, y)

----------------------------------------------------------------------------
(* str.strip(), str.rstrip('%') and float() on sequences of characters *)

Whitespace == {" "}
Digits == <<"0", "1", "2", "3", "4", "5", "6", "7", "8", "9">>
DigitSet == {Digits[i] : i \in 1..Len(Digits)}
DigitVal(c) == (CHOOSE i \in 1..Len(Digits) : Digits[i] = c) - 1

RECURSIVE LStrip(_, _)
LStrip(s, chars) ==
    IF s # <<>> /\ Head(s) \in chars THEN LStrip(Tail(s), chars) ELSE s

RECURSIVE RStrip(_, _)
RStrip(s, chars) ==
    IF s # <<>> /\ s[Len(s)] \in chars
    THEN RStrip(SubSeq(s, 1, Len(s) - 1), chars)
    ELSE s

\* s.strip(): leading and trailing whitespace removed
Strip(s) == RStrip(LStrip(s, Whitespace), Whitespace)

RECURSIVE Pow10(_)
Pow10(k) == IF k = 0 THEN 1 ELSE 10 * Pow10(k - 1)

\* the value of a sequence of digits read as a decimal integer
RECURSIVE DigitsValue(_)
DigitsValue(s) ==
    IF s = <<>> THEN 0
    ELSE 10 * DigitsValue(SubSeq(s, 1, Len(s) - 1)) + DigitVal(s[Len(s)])

AllDigits(s) == \A i \in 1..Len(s) : s[i] \in DigitSet

\* float(s) for the decimal forms: surrounding whitespace ignored, an
\* optional sign, digits with at most one point and at least one digit.
\* Anything else is a ValueError: ok is FALSE.
ParseFloat(s) ==
    LET t == Strip(s)
        signed == t # <<>> /\ Head(t) \in {"+", "-"}
        sign == IF signed /\ Head(t) = "-" THEN 0 - 1 ELSE 1
        body == IF signed THEN Tail(t) ELSE t
        dots == {i \in 1..Len(body) : body[i] = "."}
        whole == IF dots = {} THEN body
                 ELSE SubSeq(body, 1, (CHOOSE i \in dots : TRUE) - 1)
        frac == IF dots = {} THEN <<>>
                ELSE SubSeq(body, (CHOOSE i \in dots : TRUE) + 1, Len(body))
        wellFormed == /\ Cardinality(dots) <= 1
                      /\ AllDigits(whole)
                      /\ AllDigits(frac)
                      /\ Len(whole) + Len(frac) >= 1
    IN  IF wellFormed
        THEN [ok |-> TRUE,
              val |-> Rat(sign * (DigitsValue(whole) * Pow10(Len(frac))
                                  + DigitsValue(frac)),
                          Pow10(Len(frac)))]
        ELSE [ok |-> FALSE, val |-> Zero]

\* str(n) for an int
RECURSIVE NatToChars(_)
NatToChars(n) ==
    IF n < 10 THEN <<Digits[n + 1]>>
    ELSE Append(NatToChars(n \div 10), Digits[(n % 10) + 1])

IntToChars(n) == IF n < 0 THEN <<"-">> \o NatToChars(0 - n) ELSE NatToChars(n)

\* str(v): the text of a value
ToStr(v) ==
    CASE v.kind = "str" -> v
      [] v.kind = "int" -> PyStr(IntToChars(v.ival))
      [] OTHER -> PyStr(<<"None">>)

----------------------------------------------------------------------------
(* Engine events: untyped field maps.  A field holds Absent when the key  *)
(* is missing from the dictionary.                                         *)

Downloading == PyStr(<<"downloading">>)
Finished == PyStr(<<"finished">>)
Error == PyStr(<<"error">>)
Queued == PyStr(<<"queued">>)  \* a status the projector does not know

Statuses == {Absent, Downloading, Finished, Error, Queued}

ByteValues == {Absent, None} \cup {PyInt(n) : n \in (0 - 1)..MaxBytes}

\* texts of _percent_str, one character per element
PercentTexts ==
    { <<"5", "3", ".", "2", "%">>,
      <<" ", "5", "3", ".", "2", "%", " ">>,
      <<"5", "3", ".", "2", " ", "%">>,
      <<"5", "3", ".", "2", "%", "%">>,
      <<"1", "0", "0", "%">>,
      <<"1", "0", "0", ".", "0", "%">>,
      <<"1", "5", "0", "%">>,
      <<"-", "5", "%">>,
      <<"+", "7", "%">>,
      <<".", "5", "%">>,
      <<"5", ".", "%">>,
      <<"0", "%">>,
      <<"%">>,
      <<>>,
      <<".">>,
      <<"%", "5", "3">>,
      <<"5", " ", "3", "%">>,
      <<"1", ".", "2", ".", "3", "%">>,
      <<"n", "o", "t", "-", "a", "-", "n", "u", "m", "b", "e", "r", "%">> }

PercentValues == {Absent, None, PyInt(7)} \cup {PyStr(t) : t \in PercentTexts}

SpeedText == PyStr(<<"1.5MiB/s">>)
EtaText == PyStr(<<"00:07">>)
FileText == PyStr(<<"downloads/a.mp4">>)
ErrorText == PyStr(<<"HTTP Error 403: Forbidden">>)
UnknownError == PyStr(<<"Unknown error">>)

\* the event shapes of the single-event specification
Events ==
    [status : Statuses,
     downloaded_bytes : ByteValues,
     total_bytes : ByteValues,
     percent_str : PercentValues,
     speed_str : {Absent, SpeedText},
     eta_str : {Absent, EtaText},
     filename : {Absent, FileText},
     error : {Absent, ErrorText, PyInt(404)}]

\* the events of a stream: events that carry a status, over fewer values
StreamEvents ==
    [status : Statuses \ {Absent},
     downloaded_bytes : {Absent, PyInt(1)},
     total_bytes : {Absent, PyInt(MaxBytes)},
     percent_str : {Absent, PyStr(<<"5", "3", ".", "2", "%">>)},
     speed_str : {Absent, SpeedText},
     eta_str : {Absent, EtaText},
     filename : {Absent, FileText},
     error : {Absent, ErrorText}]

EmptyEvent ==
    [status |-> Absent, downloaded_bytes |-> Absent, total_bytes |-> Absent,
     percent_str |-> Absent, speed_str |-> Absent, eta_str |-> Absent,
     filename |-> Absent, error |-> Absent]

----------------------------------------------------------------------------
(* The progress projector: YouTubeDownloader._progress_hook *)

Observer == [kind |-> "callable"]

\* 'total_bytes' in d and d['total_bytes']
KnownTotal(d) == d.total_bytes # Absent /\ Truthy(d.total_bytes)

\* The exception _progress_hook raises on event d, "none" when it returns.
HookError(d) ==
    IF d.status = Absent THEN "KeyError"
    ELSE IF d.status # Downloading THEN "none"
    ELSE IF KnownTotal(d)
         THEN IF d.downloaded_bytes = Absent THEN "KeyError"
              ELSE IF ~IsInt(d.downloaded_bytes) THEN "TypeError"
              ELSE "none"
    ELSE IF d.percent_str # Absent /\ ~IsStr(d.percent_str)
         THEN "AttributeError"
    ELSE "none"

\* float(d['_percent_str'].strip().rstrip('%')), 0.0 on ValueError
PercentFromStr(v) ==
    LET p == ParseFloat(RStrip(Strip(v.sval), {"%"}))
    IN  IF p.ok THEN p.val ELSE Zero

\* faulty variant: _percent_str preferred to the byte counts
Percentage_StrFirst(d) ==
    IF d.status = Downloading
    THEN IF IsStr(d.percent_str) THEN PercentFromStr(d.percent_str)
         ELSE IF KnownTotal(d)
         THEN PercentOf(d.downloaded_bytes.ival, d.total_bytes.ival)
         ELSE Zero
    ELSE IF d.status = Finished THEN Hundred
    ELSE Zero

\* faulty variant: a finished event's percentage computed like a downloading one's
Percentage_FinishedComputed(d) ==
    IF d.status \in {Downloading, Finished}
    THEN IF KnownTotal(d) /\ IsInt(d.downloaded_bytes)
         THEN PercentOf(d.downloaded_bytes.ival, d.total_bytes.ival)
         ELSE IF IsStr(d.percent_str) THEN PercentFromStr(d.percent_str)
         ELSE Hundred
    ELSE Zero

\* progress.percentage when the hook reaches its callback
Percentage(d) ==
    IF d.status = Downloading
    THEN IF KnownTotal(d)
         THEN PercentOf(d.downloaded_bytes.ival, d.total_bytes.ival)
         ELSE IF d.percent_str # Absent THEN PercentFromStr(d.percent_str)
         ELSE Zero
    ELSE IF d.status = Finished THEN Hundred
    ELSE Zero

\* faulty variant: d.get('error') with no placeholder
ErrorMessage_NoDefault(d) ==
    IF d.status = Error THEN ToStr(Get(d.error, None)) ELSE None

\* progress.error_message
ErrorMessage(d) ==
    IF d.status = Error THEN ToStr(Get(d.error, UnknownError)) ELSE None

\* faulty variant: one progress object kept and updated, so that a field the event
\* does not set keeps the value an earlier event gave it
DownloadProgress_Merged(d) ==
    LET old == IF download_progress = None
               THEN [speed |-> None, eta |-> None, filename |-> None,
                     error_message |-> None]
               ELSE download_progress
    IN  [status |-> d.status,
         percentage |-> Percentage(d),
         speed |-> IF d.status = Downloading /\ d.speed_str # Absent
                   THEN d.speed_str ELSE old.speed,
         eta |-> IF d.status = Downloading /\ d.eta_str # Absent
                 THEN d.eta_str ELSE old.eta,
         filename |-> IF d.status \in {Downloading, Finished}
                         /\ d.filename # Absent
                      THEN d.filename ELSE old.filename,
         error_message |-> IF d.status = Error THEN ErrorMessage(d)
                           ELSE old.error_message]

\* The DownloadProgress the hook builds for event d.
DownloadProgress(d) ==
    [status |-> d.status,
     percentage |-> Percentage(d),
     speed |-> IF d.status = Downloading THEN Get(d.speed_str, None) ELSE None,
     eta |-> IF d.status = Downloading THEN Get(d.eta_str, None) ELSE None,
     filename |-> IF d.status \in {Downloading, Finished}
                  THEN Get(d.filename, None) ELSE None,
     error_message |-> ErrorMessage(d)]

\* whether the hook goes on to build a state and call the observer
HasObserver == progress_callback # None

set_progress_callback(callback) ==
    /\ progress_callback' = callback
    /\ UNCHANGED <<event, hook, download_progress, nEvents, observed>>
    /\ UNCHANGED apiVars

\* One call of _progress_hook(d), the observer's call included: the
\* observer keeps the state it is handed and notes which event it was for.
progress_hook(d) ==
    /\ event' = d
    /\ nEvents' = nEvents + 1
    /\ IF ~HasObserver
       THEN /\ hook' = "ignored"
            /\ UNCHANGED <<download_progress, observed>>
       ELSE IF HookError(d) # "none"
       THEN /\ hook' = HookError(d)
            /\ UNCHANGED <<download_progress, observed>>
       ELSE /\ hook' = "delivered"
            /\ download_progress' = DownloadProgress(d)
            /\ observed' = Append(observed, nEvents + 1)
    /\ UNCHANGED progress_callback
    /\ UNCHANGED apiVars

InitHook ==
    /\ progress_callback = None
    /\ event = EmptyEvent
    /\ hook = "idle"
    /\ download_progress = None
    /\ nEvents = 0
    /\ observed = <<>>

InitApi ==
    /\ op = "none"
    /\ args = None
    /\ engine = <<>>
    /\ outcome = None
    /\ ydl_opts = None

\* A new browser session: nothing in st.session_state yet, the URL field
\* empty, no button on the page, and the first script run about to start.
InitApp ==
    /\ pc = "setup"
    /\ clicked = "none"
    /\ url_input = PyStr(<<>>)
    /\ has_downloader = FALSE
    /\ is_downloading = FALSE
    /\ video_info = None
    /\ download_disabled = TRUE

Init == InitHook /\ InitApi /\ InitApp

Register == set_progress_callback(Observer) /\ UNCHANGED appVars

\* the first event the engine hands to the projector, of any shape
FirstEvent ==
    /\ nEvents = 0
    /\ \E d \in Events : progress_hook(d)
    /\ UNCHANGED appVars

\* the events of one download, one after the other
StreamEvent ==
    /\ nEvents < MaxEvents
    /\ \E d \in StreamEvents : progress_hook(d)
    /\ UNCHANGED appVars

NextHook == Register \/ FirstEvent
SpecHook == Init /\ [][NextHook]_vars

NextStream == Register \/ StreamEvent
SpecStream == Init /\ [][NextStream]_vars

----------------------------------------------------------------------------
(* Claims about the progress projector *)

\* the last event reached the hook while an observer was registered
Handled == hook \notin {"idle", "ignored"}
\* ... and the hook built a state and passed it to the observer
Delivered == hook = "delivered"

Fifty == [num |-> 50, den |-> 1]
FiftyThreePointTwo == [num |-> 266, den |-> 5]
SampleText == PyStr(<<"5", "3", ".", "2", "%">>)

\* C1: _progress_hook raises no error for any engine event, whatever keys
\* the event has or lacks: it always returns normally.
C1_HookNeverRaises == hook \in {"idle", "ignored", "delivered"}

\* C2: for a downloading event with both byte counts and total_bytes > 0
\* the hook delivers percentage = downloaded_bytes / total_bytes * 100,
\* whether or not _percent_str is present too.
C2_BytePercentage ==
    ( /\ Handled
      /\ event.status = Downloading
      /\ IsInt(event.downloaded_bytes)
      /\ IsInt(event.total_bytes)
      /\ event.total_bytes.ival > 0 )
    => /\ Delivered
       /\ download_progress.percentage.den > 0
       /\ download_progress.percentage.num * event.total_bytes.ival
            = event.downloaded_bytes.ival * 100 * download_progress.percentage.den

C2_Witness ==
    /\ Delivered
    /\ event.status = Downloading
    /\ event.downloaded_bytes = PyInt(1)
    /\ event.total_bytes = PyInt(2)
    /\ event.percent_str = SampleText
    /\ download_progress.percentage = Fifty

\* C3: for a downloading event with no known total that carries
\* _percent_str, the hook delivers the number read from it after the '%'
\* is stripped, and 0.0 whenever it cannot be read as a number; no error
\* is raised and the observer is invoked.
C3_PercentStrFallback ==
    ( /\ Handled
      /\ event.status = Downloading
      /\ event.total_bytes \in {Absent, PyInt(0)}
      /\ event.percent_str # Absent )
    => /\ Delivered
       /\ event.percent_str = SampleText
            => download_progress.percentage = FiftyThreePointTwo
       /\ ( \/ ~IsStr(event.percent_str)
            \/ ~ParseFloat(RStrip(Strip(event.percent_str.sval), {"%"})).ok )
            => download_progress.percentage = Zero

\* C4 as stated: every state passed to the observer has its percentage
\* within 0.0 .. 100.0, for every engine event.
C4_AlwaysInRange ==
    Delivered => /\ RatLeq(Zero, download_progress.percentage)
                 /\ RatLeq(download_progress.percentage, Hundred)

\* the progress an event reports is itself within range
ReportsValidProgress(d) ==
    IF KnownTotal(d)
    THEN /\ IsInt(d.downloaded_bytes)
         /\ 0 <= d.downloaded_bytes.ival
         /\ d.downloaded_bytes.ival <= d.total_bytes.ival
    ELSE IF IsStr(d.percent_str)
    THEN LET p == ParseFloat(RStrip(Strip(d.percent_str.sval), {"%"}))
         IN  p.ok => RatLeq(Zero, p.val) /\ RatLeq(p.val, Hundred)
    ELSE TRUE

\* C4 (amended): every state passed to the observer has its percentage
\* within 0.0 .. 100.0 when the event is not a downloading one, or is a
\* downloading one that reports 0 <= downloaded_bytes <= total_bytes
\* (total known) or a _percent_str reading between 0 and 100 (otherwise).
C4_InRangeForValidProgress ==
    ( /\ Delivered
      /\ event.status = Downloading => ReportsValidProgress(event) )
    => /\ RatLeq(Zero, download_progress.percentage)
       /\ RatLeq(download_progress.percentage, Hundred)

C4_Witness ==
    /\ Delivered
    /\ event.status = Downloading
    /\ event.downloaded_bytes = PyInt(1)
    /\ event.total_bytes = PyInt(2)
    /\ download_progress.percentage = Fifty

\* C5: for every finished event the delivered percentage is 100.0 whatever
\* other fields the event carries, and filename is the event's filename.
C5_FinishedIsHundred ==
    (Handled /\ event.status = Finished)
    => /\ Delivered
       /\ download_progress.percentage.num = 100
       /\ download_progress.percentage.den = 1
       /\ event.filename # Absent => download_progress.filename = event.filename
       /\ event.filename = Absent => download_progress.filename = None

C5_Witness ==
    /\ Delivered
    /\ event.status = Finished
    /\ event.downloaded_bytes = PyInt(1)
    /\ event.total_bytes = PyInt(2)
    /\ event.percent_str = SampleText
    /\ event.error = ErrorText
    /\ event.filename = FileText
    /\ download_progress.filename = FileText
    /\ download_progress.percentage = Hundred

\* C6: for every error event the delivered error_message is the text of
\* the event's error field when present and "Unknown error" when absent.
C6_ErrorMessage ==
    (Handled /\ event.status = Error)
    => /\ Delivered
       /\ event.error = Absent
            => download_progress.error_message = PyStr(<<"Unknown error">>)
       /\ event.error = ErrorText
            => download_progress.error_message = ErrorText
       /\ event.error = PyInt(404)
            => download_progress.error_message = PyStr(<<"4", "0", "4">>)

C6_Witness ==
    /\ Delivered
    /\ event.status = Error
    /\ event.error = Absent
    /\ download_progress.error_message = UnknownError

\* C7: with an observer registered, every event invokes the observer
\* exactly once, in event order, before the hook returns, whatever its
\* status; with none registered an event invokes nothing and changes no
\* state.
C7_OncePerEvent ==
    [][ nEvents' = nEvents + 1
        => IF progress_callback # None
           THEN observed' = Append(observed, nEvents')
           ELSE UNCHANGED <<progress_callback, download_progress, observed>>
      ]_vars

\* C8: the state delivered for an event is determined by that event alone:
\* every field that is set comes from this event (speed and eta only from a
\* downloading event that supplied them, error_message only from an error
\* event), and an unknown status gives 0.0 with every optional field empty.
C8_StateFromEventAlone ==
    Delivered =>
      LET p == download_progress
          d == event
      IN  /\ p.status = d.status
          /\ p.speed # None => d.status = Downloading /\ p.speed = d.speed_str
          /\ p.eta # None => d.status = Downloading /\ p.eta = d.eta_str
          /\ p.filename # None
               => d.status \in {Downloading, Finished} /\ p.filename = d.filename
          /\ p.error_message # None => d.status = Error
          /\ d.status = Finished => p.percentage = Hundred
          /\ d.status \notin {Downloading, Finished} => p.percentage = Zero
          /\ (d.status = Downloading /\ ~KnownTotal(d) /\ d.percent_str = Absent)
               => p.percentage = Zero
          /\ d.status \notin {Downloading, Finished, Error}
               => /\ p.percentage = Zero
                  /\ p.speed = None /\ p.eta = None
                  /\ p.filename = None /\ p.error_message = None

C8_Witness ==
    /\ Delivered
    /\ observed = <<1, 2>>
    /\ event.status = Queued
    /\ event.speed_str = SpeedText
    /\ download_progress.speed = None
    /\ download_progress.percentage = Zero

----------------------------------------------------------------------------
(* The extraction engine's results, as the wrapper reads them *)

Returned(v) == [kind |-> "returned", val |-> v]
Raised(msg) == [kind |-> "raised", message |-> msg]

VideoPrefix == <<"Failed to extract video info: ">>
PlaylistPrefix == <<"Failed to extract playlist info: ">>
DownloadPrefix == <<"Download failed: ">>
NoVideosFound == <<"No videos found in playlist/channel">>
NoneNotIterable == <<"argument of type 'NoneType' is not iterable">>
NoneHasNoGet == <<"'NoneType' object has no attribute 'get'">>
IndexOutOfRange == <<"list index out of range">>

\* the engine raising on its own (extract_info or download)
EngineRaise == [kind |-> "raise", message |-> <<"ERROR: Video unavailable">>]
EngineOk == [kind |-> "ok"]

EmptyText == PyStr(<<>>)
TitleText == PyStr(<<"M", "y", " ", "C", "l", "i", "p", ":", " ", "#", "1", "!", " ">>)

\* {}: a dictionary with none of the keys
EmptyDict ==
    [kind |-> "dict", entries |-> Absent, id |-> Absent, title |-> Absent,
     description |-> Absent, duration |-> Absent, uploader |-> Absent,
     upload_date |-> Absent, view_count |-> Absent, thumbnail |-> Absent,
     formats |-> Absent]

FormatDict ==
    [format_id |-> PyStr(<<"22">>), ext |-> PyStr(<<"mp4">>), quality |-> Absent,
     filesize |-> Absent, format_note |-> PyStr(<<"720p">>)]

IdOnly == [EmptyDict EXCEPT !.id = PyStr(<<"abc123">>)]

FullVideo ==
    [kind |-> "dict", entries |-> Absent, id |-> PyStr(<<"abc123">>),
     title |-> TitleText, description |-> PyStr(<<"about">>),
     duration |-> PyInt(75), uploader |-> PyStr(<<"someone">>),
     upload_date |-> PyStr(<<"20240101">>), view_count |-> PyInt(1000),
     thumbnail |-> PyStr(<<"https://i.ytimg.com/vi/abc123/0.jpg">>),
     formats |-> PyList(<<FormatDict>>)]

\* an element of an entries list: yt-dlp leaves None for an unavailable video
EntryValues == {None, EmptyDict, IdOnly, FullVideo}

EntryLists == UNION {[1..n -> EntryValues] : n \in 0..MaxEntries}

Playlists == {[EmptyDict EXCEPT !.entries = PyList(e)] : e \in EntryLists}

\* what extract_info(url, download=False) may hand back, or raise
ExtractResults == {EngineRaise, None, EmptyDict, FullVideo} \cup Playlists

Urls == {PyStr(<<"https://www.youtube.com/playlist?list=PL1">>)}

ExtractCall(r) == [call |-> "extract_info", result |-> r]
DownloadCall(r) == [call |-> "download", result |-> r]

----------------------------------------------------------------------------
(* get_video_info and get_playlist_info *)

FormatOf(f) ==
    [format_id |-> Get(f.format_id, EmptyText),
     ext |-> Get(f.ext, EmptyText),
     quality |-> Get(f.quality, EmptyText),
     filesize |-> Get(f.filesize, PyInt(0)),
     format_note |-> Get(f.format_note, EmptyText)]

\* the VideoInfo get_video_info builds from an info dictionary
VideoInfo(info, url) ==
    [id |-> Get(info.id, EmptyText),
     title |-> Get(info.title, PyStr(<<"Unknown Title">>)),
     description |-> Get(info.description, EmptyText),
     duration |-> Get(info.duration, PyInt(0)),
     uploader |-> Get(info.uploader, PyStr(<<"Unknown">>)),
     upload_date |-> Get(info.upload_date, EmptyText),
     view_count |-> Get(info.view_count, PyInt(0)),
     thumbnail |-> Get(info.thumbnail, EmptyText),
     formats |-> LET fs == Get(info.formats, PyList(<<>>)).items
                 IN  PyList([i \in 1..Len(fs) |-> FormatOf(fs[i])]),
     url |-> url]

\* the basic VideoInfo get_playlist_info builds from a playlist entry
EntryInfo(entry) ==
    [id |-> Get(entry.id, EmptyText),
     title |-> Get(entry.title, PyStr(<<"Unknown Title">>)),
     description |-> EmptyText,
     duration |-> Get(entry.duration, PyInt(0)),
     uploader |-> Get(entry.uploader, PyStr(<<"Unknown">>)),
     upload_date |-> EmptyText,
     view_count |-> PyInt(0),
     thumbnail |-> Get(entry.thumbnail, EmptyText),
     formats |-> PyList(<<>>),
     url |-> PyStr(<<"https://www.youtube.com/watch?v=">>
                   \o Get(entry.id, EmptyText).sval)]

\* What get_video_info(url) returns or raises when extract_info gives r.
VideoInfoResult(r, url) ==
    IF r.kind = "raise" THEN Raised(VideoPrefix \o r.message)
    ELSE IF r = None THEN Raised(VideoPrefix \o NoneNotIterable)
    ELSE IF r.entries = Absent THEN Returned(VideoInfo(r, url))
    ELSE IF ~Truthy(r.entries) THEN Raised(VideoPrefix \o NoVideosFound)
    ELSE IF r.entries.items[1] = None THEN Raised(VideoPrefix \o NoneHasNoGet)
    ELSE Returned(VideoInfo(r.entries.items[1], url))

\* for entry in entries: if entry: videos.append(...)
RECURSIVE EntryInfos(_)
EntryInfos(entries) ==
    IF entries = <<>> THEN <<>>
    ELSE IF Truthy(Head(entries))
    THEN <<EntryInfo(Head(entries))>> \o EntryInfos(Tail(entries))
    ELSE EntryInfos(Tail(entries))

\* whether get_playlist_info takes r for a single video and asks again
IsSingleVideo(r) == r.kind = "dict" /\ r.entries = Absent

\* What get_playlist_info(url) returns or raises when its extract_info
\* gives r and the one inside get_video_info (single video) gives r2.
PlaylistInfoResult(r, r2, url) ==
    IF r.kind = "raise" THEN Raised(PlaylistPrefix \o r.message)
    ELSE IF r = None THEN Raised(PlaylistPrefix \o NoneNotIterable)
    ELSE IF IsSingleVideo(r)
    THEN LET v == VideoInfoResult(r2, url)
         IN  IF v.kind = "raised" THEN Raised(PlaylistPrefix \o v.message)
             ELSE Returned(PyList(<<v.val>>))
    ELSE Returned(PyList(EntryInfos(r.entries.items)))

get_video_info(url) ==
    \E r \in ExtractResults :
        /\ op' = "get_video_info"
        /\ args' = [url |-> url]
        /\ ydl_opts' = [quiet |-> TRUE, no_warnings |-> TRUE]
        /\ engine' = <<ExtractCall(r)>>
        /\ outcome' = VideoInfoResult(r, url)
        /\ UNCHANGED hookVars

get_playlist_info(url) ==
    \E r \in ExtractResults :
      \E r2 \in IF IsSingleVideo(r) THEN ExtractResults ELSE {None} :
        /\ op' = "get_playlist_info"
        /\ args' = [url |-> url]
        /\ ydl_opts' = [quiet |-> TRUE, no_warnings |-> TRUE, extract_flat |-> TRUE]
        /\ engine' = IF IsSingleVideo(r)
                     THEN <<ExtractCall(r), ExtractCall(r2)>>
                     ELSE <<ExtractCall(r)>>
        /\ outcome' = PlaylistInfoResult(r, r2, url)
        /\ UNCHANGED hookVars

----------------------------------------------------------------------------
(* DownloadFormat and download_video *)

DownloadFormat == {"MP4_BEST", "MP4_720P", "MP4_480P", "MP3_BEST", "AUDIO_ONLY"}

\* DownloadFormat.value: the engine's format selector, piece by piece
Selector(f) ==
    CASE f = "MP4_BEST" -> <<"best", "[ext=mp4]">>
      [] f = "MP4_720P" -> <<"best", "[height<=720]", "[ext=mp4]">>
      [] f = "MP4_480P" -> <<"best", "[height<=480]", "[ext=mp4]">>
      [] f = "MP3_BEST" -> <<"bestaudio", "[ext=m4a]", "/", "bestaudio", "/", "best">>
      [] f = "AUDIO_ONLY" -> <<"bestaudio", "/", "best">>

\* faulty variant: only the MP3 preset takes the audio branch
NeedsAudioExtraction_Mp3Only(f) == f = "MP3_BEST"

\* format_choice in [DownloadFormat.MP3_BEST, DownloadFormat.AUDIO_ONLY]
NeedsAudioExtraction(f) == f \in {"MP3_BEST", "AUDIO_ONLY"}

ExtractAudio ==
    [key |-> "FFmpegExtractAudio", preferredcodec |-> "mp3",
     preferredquality |-> "192"]

\* self.download_path, with the constructor's default
DownloadPath == <<"downloads">>
PathJoin(dir, name) == PyStr(dir \o <<"/">> \o name)

Letters ==
    {"a", "b", "c", "d", "e", "f", "g", "h", "i", "j", "k", "l", "m",
     "n", "o", "p", "q", "r", "s", "t", "u", "v", "w", "x", "y", "z",
     "A", "B", "C", "D", "E", "F", "G", "H", "I", "J", "K", "L", "M",
     "N", "O", "P", "Q", "R", "S", "T", "U", "V", "W", "X", "Y", "Z"}

\* "".join(c for c in title if c.isalnum() or c in (' ', '-', '_')).strip()
CleanTitle(title) ==
    Strip(SelectSeq(title, LAMBDA c : c \in Letters \cup DigitSet \cup {" ", "-", "_"}))

OutputFilenames == {None, EmptyText, PyStr(<<"clip.mp4">>)}

\* the options download_video builds
DownloadOpts(f, output_filename) ==
    [format |-> Selector(f),
     outtmpl |-> IF Truthy(output_filename)
                 THEN PathJoin(DownloadPath, output_filename.sval)
                 ELSE PathJoin(DownloadPath, <<"%(title)s.%(ext)s">>),
     progress_hooks |-> <<"_progress_hook">>,
     postprocessors |-> IF NeedsAudioExtraction(f)
                        THEN PyList(<<ExtractAudio>>) ELSE Absent]

\* the path download_video returns once it holds the info dictionary
ExpectedFile(info, f, output_filename) ==
    IF Truthy(output_filename)
    THEN Returned(PathJoin(DownloadPath, output_filename.sval))
    ELSE IF info = None THEN Raised(DownloadPrefix \o NoneHasNoGet)
    ELSE Returned(PathJoin(DownloadPath,
             CleanTitle(Get(info.title, PyStr(<<"v", "i", "d", "e", "o">>)).sval)
             \o (IF NeedsAudioExtraction(f) THEN <<".mp3">> ELSE <<".mp4">>)))

\* What download_video returns or raises when the engine's download ends
\* as dl and the extract_info after it gives r.
DownloadResult(dl, r, f, output_filename) ==
    IF dl.kind = "raise" THEN Raised(DownloadPrefix \o dl.message)
    ELSE IF r.kind = "raise" THEN Raised(DownloadPrefix \o r.message)
    ELSE IF r = None THEN Raised(DownloadPrefix \o NoneNotIterable)
    ELSE IF r.entries = Absent THEN ExpectedFile(r, f, output_filename)
    ELSE IF r.entries.items = <<>> THEN Raised(DownloadPrefix \o IndexOutOfRange)
    ELSE ExpectedFile(r.entries.items[1], f, output_filename)

download_video(url, format_choice, output_filename) ==
    \E dl \in {EngineOk, EngineRaise} :
      \E r \in IF dl.kind = "raise" THEN {None} ELSE ExtractResults :
        /\ op' = "download_video"
        /\ args' = [url |-> url, format_choice |-> format_choice,
                    output_filename |-> output_filename]
        /\ ydl_opts' = DownloadOpts(format_choice, output_filename)
        /\ engine' = IF dl.kind = "raise"
                     THEN <<DownloadCall(dl)>>
                     ELSE <<DownloadCall(dl), ExtractCall(r)>>
        /\ outcome' = DownloadResult(dl, r, format_choice, output_filename)
        /\ UNCHANGED hookVars

GetVideoInfo == (\E url \in Urls : get_video_info(url)) /\ UNCHANGED appVars
GetPlaylistInfo ==
    (\E url \in Urls : get_playlist_info(url)) /\ UNCHANGED appVars
DownloadVideo ==
    /\ \E url \in Urls, f \in DownloadFormat, name \in OutputFilenames :
          download_video(url, f, name)
    /\ UNCHANGED appVars

NextApi == GetVideoInfo \/ GetPlaylistInfo \/ DownloadVideo
SpecApi == Init /\ [][NextApi]_vars

----------------------------------------------------------------------------
(* Claims about extraction and the format catalogue *)

\* the result of the engine call the operation made last
LastResult == engine[Len(engine)].result

IsSuffix(t, msg) ==
    Len(msg) >= Len(t) /\ SubSeq(msg, Len(msg) - Len(t) + 1, Len(msg)) = t

\* C9: a playlist or channel extraction whose entries list is empty makes
\* get_video_info and get_playlist_info fail with the empty-playlist error;
\* neither returns normally.
C9_EmptyPlaylistFails ==
    ( /\ op \in {"get_video_info", "get_playlist_info"}
      /\ LastResult.kind = "dict"
      /\ LastResult.entries = PyList(<<>>) )
    => /\ outcome.kind = "raised"
       /\ IsSuffix(NoVideosFound, outcome.message)

\* C10 as stated: download_video asks for the MP3 post-processing step when
\* and only when the preset is the MP3 one.
C10_OnlyMp3Extracts ==
    op = "download_video"
    => ((ydl_opts.postprocessors # Absent) <=> (args.format_choice = "MP3_BEST"))

Has(selector, piece) == \E i \in 1..Len(selector) : selector[i] = piece

\* C10 (amended): download_video asks for the MP3 post-processing step
\* (codec mp3, 192 kbps) when and only when the preset is MP3_BEST or
\* AUDIO_ONLY; the three MP4 presets, whose selectors carry ext=mp4 and
\* height<=720 / height<=480 for the capped ones, get no post-processing.
C10_AudioPresetsExtract ==
    op = "download_video"
    => LET f == args.format_choice
       IN  /\ f \in {"MP3_BEST", "AUDIO_ONLY"}
                => /\ ydl_opts.postprocessors # Absent
                   /\ Len(ydl_opts.postprocessors.items) = 1
                   /\ ydl_opts.postprocessors.items[1].key = "FFmpegExtractAudio"
                   /\ ydl_opts.postprocessors.items[1].preferredcodec = "mp3"
                   /\ ydl_opts.postprocessors.items[1].preferredquality = "192"
           /\ f \in {"MP4_BEST", "MP4_720P", "MP4_480P"}
                => /\ ydl_opts.postprocessors = Absent
                   /\ Has(ydl_opts.format, "[ext=mp4]")
           /\ f = "MP4_720P" => Has(ydl_opts.format, "[height<=720]")
           /\ f = "MP4_480P" => Has(ydl_opts.format, "[height<=480]")
           /\ f = "MP4_BEST"
                => \A i \in 1..Len(ydl_opts.format) :
                       ydl_opts.format[i] \notin {"[height<=720]", "[height<=480]"}

C10_Witness ==
    /\ op = "download_video"
    /\ args.format_choice = "AUDIO_ONLY"
    /\ ydl_opts.format = <<"bestaudio", "/", "best">>
    /\ ydl_opts.postprocessors = PyList(<<ExtractAudio>>)
    /\ outcome.kind = "returned"

----------------------------------------------------------------------------
(* Claims about download_video's result *)

\* the engine's download calls among the calls the operation made
DownloadCalls == {i \in 1..Len(engine) : engine[i].call = "download"}

\* C11: download_video calls the engine's download exactly once, and
\* reports a failure only when that call failed: once it has returned,
\* download_video returns a file path, whatever the metadata lookup after
\* it does (raising, or giving an empty entries list).
C11_FailsOnlyWhenDownloadFails ==
    op = "download_video"
    => /\ Cardinality(DownloadCalls) = 1
       /\ engine[1].call = "download"
       /\ engine[1].result.kind = "ok" => outcome.kind = "returned"
       /\ outcome.kind = "raised" => engine[1].result.kind = "raise"

----------------------------------------------------------------------------
(* The Streamlit front-end (src/streamlit_app.py) *)

\* A URL is the sequence of its pieces, so that '"playlist" in url_input'
\* is a search for a piece.
WatchUrl == PyStr(<<"https://www.youtube.com/", "watch", "?v=abc">>)
\* what the user may leave in the URL field: nothing, or a video's URL
\* (playlist extraction is explored on its own under SpecApi)
UrlInputs == {EmptyText, WatchUrl}

\* word in text
Contains(word, text) == \E i \in 1..Len(text.sval) : text.sval[i] = word

\* the values of format_options, one per label of the selectbox
format_options == {"MP4_BEST", "MP4_720P", "MP4_480P", "MP3_BEST"}

Buttons == {"get_info", "download", "clear"}

\* events the engine reports in the course of one download: one that the
\* progress display block would show as a bar, one that would make it lower
\* the flag
DownloadEvents ==
    {[EmptyEvent EXCEPT !.status = Downloading,
                        !.downloaded_bytes = PyInt(1),
                        !.total_bytes = PyInt(MaxBytes),
                        !.speed_str = SpeedText],
     [EmptyEvent EXCEPT !.status = Error, !.error = ErrorText]}

\* disabled=not url_input or st.session_state.is_downloading
DownloadDisabled == ~Truthy(url_input) \/ is_downloading

\* The user edits the URL field of an idle page; the script runs again.
EditUrl ==
    /\ pc = "idle"
    /\ \E u \in UrlInputs \ {url_input} : url_input' = u
    /\ clicked' = "none"
    /\ pc' = "setup"
    /\ UNCHANGED <<has_downloader, is_downloading, video_info, download_disabled>>
    /\ UNCHANGED <<hookVars, apiVars>>

\* The user presses a button the idle page shows enabled; the script runs
\* again with that button's st.button() returning True.
PressButton ==
    /\ pc = "idle"
    /\ \E b \in Buttons :
        /\ b = "get_info" => Truthy(url_input)
        /\ b = "download" => ~download_disabled
        /\ clicked' = b
    /\ pc' = "setup"
    /\ UNCHANGED <<url_input, has_downloader, is_downloading, video_info,
                   download_disabled>>
    /\ UNCHANGED <<hookVars, apiVars>>

\* Top of the script: the session state is filled in on the session's first
\* run, and the observer is registered with the downloader on every run.
SessionSetup ==
    /\ pc = "setup"
    /\ IF ~has_downloader
       THEN /\ download_progress' = None
            /\ video_info' = None
            /\ is_downloading' = FALSE
       ELSE UNCHANGED <<download_progress, video_info, is_downloading>>
    /\ has_downloader' = TRUE
    /\ progress_callback' = Observer
    /\ pc' = "get_info"
    /\ UNCHANGED <<event, hook, nEvents, observed>>
    /\ UNCHANGED <<clicked, url_input, download_disabled>>
    /\ UNCHANGED apiVars

\* The Get Info button and its handler.
GetInfoHandler ==
    /\ pc = "get_info"
    /\ IF clicked = "get_info" /\ Truthy(url_input)
       THEN IF Contains("playlist", url_input) \/ Contains("channel", url_input)
            THEN /\ get_playlist_info(url_input)
                 /\ video_info' = IF outcome'.kind = "returned"
                                  THEN outcome'.val ELSE video_info
            ELSE /\ get_video_info(url_input)
                 /\ video_info' = IF outcome'.kind = "returned"
                                  THEN PyList(<<outcome'.val>>) ELSE video_info
       ELSE UNCHANGED <<hookVars, apiVars, video_info>>
    /\ pc' = "download"
    /\ UNCHANGED <<clicked, url_input, has_downloader, is_downloading,
                   download_disabled>>

\* The Download button is drawn, and if it was pressed its handler starts:
\* the flag goes up and the last progress is forgotten.
DownloadHandlerStart ==
    /\ pc = "download"
    /\ download_disabled' = DownloadDisabled
    /\ IF clicked = "download" /\ Truthy(url_input)
       THEN /\ is_downloading' = TRUE
            /\ download_progress' = None
            /\ pc' = "downloading"
       ELSE /\ pc' = "clear"
            /\ UNCHANGED <<is_downloading, download_progress>>
    /\ UNCHANGED <<progress_callback, event, hook, nEvents, observed>>
    /\ UNCHANGED <<clicked, url_input, has_downloader, video_info>>
    /\ UNCHANGED apiVars

\* While download_video runs, the engine reports an event to the hook,
\* whose observer is progress_callback: it stores the state in the session.
DownloadEvent ==
    /\ pc = "downloading"
    /\ nEvents < MaxEvents
    /\ \E d \in DownloadEvents : progress_hook(d)
    /\ UNCHANGED appVars

\* faulty variant: the flag is lowered at the end of the try block, so it
\* stays up when download_video raises
DownloadHandlerEnd_NoFinally ==
    /\ pc = "downloading"
    /\ \E f \in format_options : download_video(url_input, f, None)
    /\ is_downloading' = (outcome'.kind = "raised")
    /\ pc' = "clear"
    /\ UNCHANGED <<clicked, url_input, has_downloader, video_info,
                   download_disabled>>

\* download_video returns (st.success) or raises (st.error), and the
\* finally clause lowers the flag either way.
DownloadHandlerEnd ==
    /\ pc = "downloading"
    /\ \E f \in format_options : download_video(url_input, f, None)
    /\ is_downloading' = FALSE
    /\ pc' = "clear"
    /\ UNCHANGED <<clicked, url_input, has_downloader, video_info,
                   download_disabled>>

\* The Clear button and its handler, which ends in st.rerun(): the script
\* starts over, and its assignment to the local url_input is lost to the
\* text field's value.
ClearHandler ==
    /\ pc = "clear"
    /\ IF clicked = "clear"
       THEN /\ video_info' = None
            /\ download_progress' = None
            /\ clicked' = "none"
            /\ pc' = "setup"
       ELSE /\ pc' = "progress"
            /\ UNCHANGED <<video_info, download_progress, clicked>>
    /\ UNCHANGED <<progress_callback, event, hook, nEvents, observed>>
    /\ UNCHANGED <<url_input, has_downloader, is_downloading, download_disabled>>
    /\ UNCHANGED apiVars

\* The progress display block.
ProgressDisplay ==
    /\ pc = "progress"
    /\ IF /\ is_downloading
          /\ download_progress # None
          /\ download_progress.status \in {Finished, Error}
       THEN is_downloading' = FALSE
       ELSE UNCHANGED is_downloading
    /\ pc' = "refresh"
    /\ UNCHANGED <<clicked, url_input, has_downloader, video_info,
                   download_disabled>>
    /\ UNCHANGED <<hookVars, apiVars>>

\* Bottom of the script: with the flag up it sleeps and runs again,
\* otherwise the run is over and the page waits for the user.
AutoRefresh ==
    /\ pc = "refresh"
    /\ pc' = IF is_downloading THEN "setup" ELSE "idle"
    /\ clicked' = "none"
    /\ UNCHANGED <<url_input, has_downloader, is_downloading, video_info,
                   download_disabled>>
    /\ UNCHANGED <<hookVars, apiVars>>

NextApp ==
    \/ EditUrl
    \/ PressButton
    \/ SessionSetup
    \/ GetInfoHandler
    \/ DownloadHandlerStart
    \/ DownloadEvent
    \/ DownloadHandlerEnd
    \/ ClearHandler
    \/ ProgressDisplay
    \/ AutoRefresh
SpecApp == Init /\ [][NextApp]_vars

----------------------------------------------------------------------------
(* Claims about the front-end's is_downloading flag *)

\* the positions of a script run inside the Download handler's try block
InDownloadHandler == pc = "downloading"

====
